---- MODULE Spec2Model ----
(***************************************************************************)
(* A model of atomiccreate: smart_open (a scoped file handle that stages   *)
(* its writes in a temporary file and renames it onto the target when the  *)
(* scope exits without error) and atomic_symlink (create a symbolic link   *)
(* under a temporary name, then rename it onto the destination).           *)
(*                                                                         *)
(* The file system is one directory holding the destination entry "dst"    *)
(* and the names the temporary-name generators can return.  Every system   *)
(* call of the code is one step, so that other processes interleave        *)
(* between any two of them.                                                *)
(***************************************************************************)
EXTENDS Integers, Sequences, FiniteSets, TLC

VARIABLES
    dir,      \* whether the parent directory of the destination exists
    fs,       \* the entries of that directory: name -> entry
    umask,    \* the process umask (a set of permission bits)
    so,       \* the smart_open objects: scope -> fields and position
    sl,       \* the atomic_symlink calls: caller -> locals and position
    others,   \* how many entries other processes have created
    seen,     \* what the concurrent reader last read at the destination
    prior     \* the directory, the destination entry and the umask before any call

vars == <<dir, fs, umask, so, sl, others, seen, prior>>

----------------------------------------------------------------------------
(* Bounds *)

\* chunks the body of a scope writes to its handle
MaxChunks == 2
\* attempts of atomic_symlink's loop (os.TMP_MAX, 10000 in the code)
MaxTries == 2
\* entries that processes outside the library create under temporary names
MaxOther == 1

Scopes == {"s1", "s2"}
Callers == {"c1", "c2"}
\* the names tempfile can return in the directory; the destination's own
\* name is taken not to be one of them
TempNames == {"t1", "t2", "t3"}
Names == {"dst"} \cup TempNames

----------------------------------------------------------------------------
(* Permission bits, as the set of bits that are on *)

Bits == {"ur", "uw", "ux", "gr", "gw", "gx", "or", "ow", "ox"}
\* 0o666
RW == {"ur", "uw", "gr", "gw", "or", "ow"}
\* 0o600, the mode tempfile creates its files with
TempCreateMode == {"ur", "uw"}
\* 0o022, 0o666, 0o777
Umasks == {{"gw", "ow"}, RW, Bits}
\* 0o755, the permission of a file that exists before the scope
PriorPerm == {"ur", "uw", "ux", "gr", "gx", "or", "ox"}
\* 0o640
CallerPerm == {"ur", "uw", "gr"}

\* ~current_umask & 0o666
UmaskDefault(current_umask) == RW \ current_umask

----------------------------------------------------------------------------
(* Directory entries *)

NoEntry == [kind |-> "none", data |-> <<>>, perm |-> {}, to |-> "", by |-> ""]
FileEntry(data, perm, by) ==
    [kind |-> "file", data |-> data, perm |-> perm, to |-> "", by |-> by]
LinkEntry(to, by) ==
    [kind |-> "link", data |-> <<>>, perm |-> {}, to |-> to, by |-> by]
DirEntry == [kind |-> "dir", data |-> <<>>, perm |-> {}, to |-> "", by |-> "init"]

\* the content a scope's body writes, chunk by chunk
Payload(p) == [i \in 1..MaxChunks |-> <<p, i>>]
\* the content of a file that exists before any scope runs
PriorData == <<<<"init", 1>>>>
PriorFile == FileEntry(PriorData, PriorPerm, "init")

\* link targets: "/gone" names no existing path
Srcs == {"/a/b", "/c/d", "/gone"}
SrcExists(src) == src # "/gone"

\* os.path.lexists(name)
LExists(name) == fs[name].kind # "none"
\* os.path.exists(name): follows a symbolic link to its target
Exists(name) ==
    /\ LExists(name)
    /\ fs[name].kind = "link" => SrcExists(fs[name].to)

----------------------------------------------------------------------------
(* smart_open: the object *)

\* open modes, as the set of their characters
Modes == {{"r"}, {"w"}, {"a"}, {"x"}, {"w", "+"}, {"w", "b"}}
StagedModes == {{"w"}, {"w", "b"}}

NoHandle == [name |-> "", closed |-> TRUE, ino |-> "", pos |-> 0,
             append |-> FALSE, buf |-> <<>>]

\* the arguments of one smart_open(...) call and the fields before __init__
NewScope(mode, use_temp, chmod, delete_temp_on_error, bare) ==
    [pc |-> "new", mode |-> mode, use_temp_arg |-> use_temp,
     chmod_arg |-> chmod, delete_temp_on_error |-> delete_temp_on_error,
     bare |-> bare, current_umask |-> {}, chmod |-> {}, use_temp |-> FALSE,
     file |-> NoHandle, written |-> 0, exc |-> FALSE, chmod_called |-> FALSE,
     err |-> "none"]
IdleScope == [NewScope({"r"}, "None", [given |-> FALSE, bits |-> {}], TRUE, FALSE)
                EXCEPT !.pc = "idle"]

\* the chmod argument: None, 0, 0o640
ChmodArgs == {[given |-> FALSE, bits |-> {}], [given |-> TRUE, bits |-> {}],
              [given |-> TRUE, bits |-> CallerPerm]}
UseTempArgs == {"None", "True", "False"}

cannot_use_temp_no_plus(mode) == "r" \in mode \/ "x" \in mode \/ "a" \in mode
cannot_use_temp(mode) ==
    "r" \in mode \/ "x" \in mode \/ "a" \in mode \/ "+" \in mode

\* __init__, the use_temp part
use_temp_init(s) ==
    IF s.use_temp_arg = "True" /\ cannot_use_temp(s.mode)
    THEN [s EXCEPT !.pc = "raised", !.err = "ValueError"]
    ELSE [s EXCEPT !.pc = "enter",
                   !.use_temp = IF s.use_temp_arg = "None"
                                THEN ~cannot_use_temp(s.mode)
                                ELSE s.use_temp_arg = "True"]

\* __init__ up to os.umask(0), or to its end when chmod is given
InitBegin(p) ==
    /\ so[p].pc = "new"
    /\ IF ~so[p].chmod_arg.given
       THEN /\ so' = [so EXCEPT ![p].current_umask = umask,
                                ![p].pc = "init_umask"]
            /\ umask' = {}
       ELSE /\ so' = [so EXCEPT ![p] =
                         use_temp_init([@ EXCEPT !.chmod = so[p].chmod_arg.bits])]
            /\ UNCHANGED umask
    /\ UNCHANGED <<dir, fs, sl, others, seen, prior>>

\* __init__ from os.umask(current_umask) to its end
InitUmaskRestore(p) ==
    /\ so[p].pc = "init_umask"
    /\ umask' = so[p].current_umask
    /\ so' = [so EXCEPT ![p] =
                 use_temp_init([@ EXCEPT !.chmod = UmaskDefault(so[p].current_umask)])]
    /\ UNCHANGED <<dir, fs, sl, others, seen, prior>>

----------------------------------------------------------------------------
(* smart_open: __enter__ *)

Max(a, b) == IF a >= b THEN a ELSE b

\* the bytes of a file after `buf` is written at offset `pos`
WriteAt(data, pos, buf) ==
    [i \in 1..Max(Len(data), pos + Len(buf)) |->
        IF i > pos /\ i <= pos + Len(buf) THEN buf[i - pos]
        ELSE IF i <= Len(data) THEN data[i]
        ELSE <<"nul", 0>>]

\* the name under which the file a handle refers to is linked now, if any
LinkedAt(fsys, ino) == {n \in Names : fsys[n].kind = "file" /\ fsys[n].by = ino}

\* the directory after the handle's buffer is written out
Flushed(fsys, h) ==
    IF h.buf = <<>> \/ LinkedAt(fsys, h.ino) = {}
    THEN fsys
    ELSE LET n == CHOOSE n \in LinkedAt(fsys, h.ino) : TRUE
         IN [fsys EXCEPT ![n].data = IF h.append THEN @ \o h.buf
                                     ELSE WriteAt(@, h.pos, h.buf)]
FlushedHandle(h) == [h EXCEPT !.buf = <<>>, !.pos = @ + Len(h.buf)]

Raised(p, err) == [so EXCEPT ![p].pc = "raised", ![p].err = err]

\* __enter__: the test that decides whether the directory is created
NeedsMakedirsAnyMode(s) == ~s.bare /\ ~dir
NeedsMakedirs(s) ==
    /\ ~s.bare
    /\ ~dir
    /\ ("w" \in s.mode \/ "x" \in s.mode \/ "a" \in s.mode \/ "+" \in s.mode)

EnterCheckDir(p) ==
    /\ so[p].pc = "enter"
    /\ so' = [so EXCEPT ![p].pc = IF NeedsMakedirs(so[p]) THEN "makedirs"
                                  ELSE "open"]
    /\ UNCHANGED <<dir, fs, umask, sl, others, seen, prior>>

\* os.makedirs(d): fails when the directory exists by now, or for any other
\* reason the system has (permissions, disk full)
EnterMakedirs(p) ==
    /\ so[p].pc = "makedirs"
    /\ \E fault \in BOOLEAN :
        IF dir
        THEN so' = Raised(p, "FileExistsError") /\ UNCHANGED dir
        ELSE IF fault
        THEN so' = Raised(p, "OSError") /\ UNCHANGED dir
        ELSE dir' = TRUE /\ so' = [so EXCEPT ![p].pc = "open"]
    /\ UNCHANGED <<fs, umask, sl, others, seen, prior>>

\* tempfile.NamedTemporaryFile(mode, suffix=temp_ext, dir=d, delete=False):
\* a new file under a name no entry has
OpenTemp(p) ==
    IF ~dir
    THEN so' = Raised(p, "FileNotFoundError") /\ UNCHANGED fs
    ELSE IF \A n \in TempNames : LExists(n)
    THEN so' = Raised(p, "FileExistsError") /\ UNCHANGED fs
    ELSE \E n \in TempNames :
            /\ ~LExists(n)
            /\ fs' = [fs EXCEPT ![n] = FileEntry(<<>>, TempCreateMode \ umask, p)]
            /\ so' = [so EXCEPT ![p].pc = "body",
                                ![p].file = [name |-> n, closed |-> FALSE,
                                             ino |-> p, pos |-> 0,
                                             append |-> FALSE, buf |-> <<>>]]

\* open(filename, mode) on the destination itself
OpenDirect(p) ==
    LET mode == so[p].mode
        there == fs["dst"].kind = "file"
        handle(ino) == [name |-> "dst", closed |-> FALSE, ino |-> ino, pos |-> 0,
                        append |-> "a" \in mode, buf |-> <<>>]
        created == [fs EXCEPT !["dst"] = FileEntry(<<>>, RW \ umask, p)]
    IN  IF ~dir \/ fs["dst"].kind \notin {"none", "file"}
        THEN so' = Raised(p, "OSError") /\ UNCHANGED fs
        ELSE IF "r" \in mode /\ ~there
        THEN so' = Raised(p, "FileNotFoundError") /\ UNCHANGED fs
        ELSE IF "x" \in mode /\ there
        THEN so' = Raised(p, "FileExistsError") /\ UNCHANGED fs
        ELSE /\ fs' = IF ~there THEN created
                      ELSE IF "w" \in mode THEN [fs EXCEPT !["dst"].data = <<>>]
                      ELSE fs
             /\ so' = [so EXCEPT ![p].pc = "body",
                                 ![p].file = handle(fs'["dst"].by)]

EnterOpen(p) ==
    /\ so[p].pc = "open"
    /\ IF so[p].use_temp THEN OpenTemp(p) ELSE OpenDirect(p)
    /\ UNCHANGED <<dir, umask, sl, others, seen, prior>>

----------------------------------------------------------------------------
(* smart_open: the body of the with statement *)

Writable(mode) == "r" \notin mode \/ "+" \in mode

\* f.write(chunk): into the handle's buffer
BodyWrite(p) ==
    /\ so[p].pc = "body"
    /\ ~so[p].file.closed
    /\ Writable(so[p].mode)
    /\ so[p].written < MaxChunks
    /\ so' = [so EXCEPT ![p].written = @ + 1,
                        ![p].file.buf = Append(@, Payload(p)[so[p].written + 1])]
    /\ UNCHANGED <<dir, fs, umask, sl, others, seen, prior>>

\* the buffer is written out (it is full, or the body calls f.flush())
BodyFlush(p) ==
    /\ so[p].pc = "body"
    /\ ~so[p].file.closed
    /\ so[p].file.buf # <<>>
    /\ fs' = Flushed(fs, so[p].file)
    /\ so' = [so EXCEPT ![p].file = FlushedHandle(@)]
    /\ UNCHANGED <<dir, umask, sl, others, seen, prior>>

\* the body closes the handle itself
BodyClose(p) ==
    /\ so[p].pc = "body"
    /\ ~so[p].file.closed
    /\ fs' = Flushed(fs, so[p].file)
    /\ so' = [so EXCEPT ![p].file = [FlushedHandle(@) EXCEPT !.closed = TRUE]]
    /\ UNCHANGED <<dir, umask, sl, others, seen, prior>>

\* the body raises: __exit__ is called with exc_type set
BodyRaise(p) ==
    /\ so[p].pc = "body"
    /\ so' = [so EXCEPT ![p].pc = "exit", ![p].exc = TRUE]
    /\ UNCHANGED <<dir, fs, umask, sl, others, seen, prior>>

\* the body ends, having written all it had to write
BodyReturn(p) ==
    /\ so[p].pc = "body"
    /\ Writable(so[p].mode) => so[p].written = MaxChunks
    /\ so' = [so EXCEPT ![p].pc = "exit", ![p].exc = FALSE]
    /\ UNCHANGED <<dir, fs, umask, sl, others, seen, prior>>

----------------------------------------------------------------------------
(* smart_open: __exit__ *)

\* where __exit__ goes after closing the handle
AfterCloseAlwaysRename(s) == "chmod"
AfterCloseAlwaysDelete(s) == IF ~s.exc THEN "chmod" ELSE "remove"
AfterClose(s) ==
    IF ~s.exc THEN "chmod"
    ELSE IF s.delete_temp_on_error THEN "remove"
    ELSE "raised"

\* self.file.close() when the handle is still open, then the branch on exc_type
ExitClose(p) ==
    /\ so[p].pc = "exit"
    /\ fs' = IF so[p].file.closed THEN fs ELSE Flushed(fs, so[p].file)
    /\ so' = [so EXCEPT ![p].file = [FlushedHandle(@) EXCEPT !.closed = TRUE],
                        ![p].pc = AfterClose(so[p]),
                        ![p].err = IF so[p].exc THEN "body" ELSE "none"]
    /\ UNCHANGED <<dir, umask, sl, others, seen, prior>>

\* whether __exit__ calls os.chmod
ChmodApplies(s) == s.chmod # {}

\* where __exit__ goes after the chmod step
AfterChmodNoRename(s) == "done"
AfterChmod(s) == IF s.file.name # "dst" THEN "rename" ELSE "done"

\* if self.chmod: os.chmod(self.file.name, self.chmod)
ExitChmod(p) ==
    /\ so[p].pc = "chmod"
    /\ IF ChmodApplies(so[p])
       THEN \E fault \in BOOLEAN :
              IF fault \/ ~LExists(so[p].file.name)
              THEN so' = Raised(p, "chmod") /\ UNCHANGED fs
              ELSE /\ fs' = [fs EXCEPT ![so[p].file.name].perm = so[p].chmod]
                   /\ so' = [so EXCEPT ![p].pc = AfterChmod(so[p]),
                                       ![p].chmod_called = TRUE]
       ELSE so' = [so EXCEPT ![p].pc = AfterChmod(so[p])] /\ UNCHANGED fs
    /\ UNCHANGED <<dir, umask, sl, others, seen, prior>>

\* os.replace(src, dst): the entry at src becomes the entry at dst, in one step
Replaced(fsys, src, dst) == [fsys EXCEPT ![dst] = fsys[src], ![src] = NoEntry]

\* os.replace(self.file.name, self.filename)
ExitRenameCleansUp(p) ==
    /\ so[p].pc = "rename"
    /\ \E fault \in BOOLEAN :
         IF fault \/ ~LExists(so[p].file.name) \/ fs["dst"].kind = "dir"
         THEN /\ so' = Raised(p, "rename")
              /\ fs' = [fs EXCEPT ![so[p].file.name] = NoEntry]
         ELSE /\ fs' = Replaced(fs, so[p].file.name, "dst")
              /\ so' = [so EXCEPT ![p].pc = "done"]
    /\ UNCHANGED <<dir, umask, sl, others, seen, prior>>
ExitRename(p) ==
    /\ so[p].pc = "rename"
    /\ \E fault \in BOOLEAN :
         IF fault \/ ~LExists(so[p].file.name) \/ fs["dst"].kind = "dir"
         THEN so' = Raised(p, "rename") /\ UNCHANGED fs
         ELSE /\ fs' = Replaced(fs, so[p].file.name, "dst")
              /\ so' = [so EXCEPT ![p].pc = "done"]
    /\ UNCHANGED <<dir, umask, sl, others, seen, prior>>

\* os.remove(self.file.name) on the error exit
ExitRemove(p) ==
    /\ so[p].pc = "remove"
    /\ \E fault \in BOOLEAN :
         IF fault \/ ~LExists(so[p].file.name)
         THEN so' = Raised(p, "remove") /\ UNCHANGED fs
         ELSE /\ fs' = [fs EXCEPT ![so[p].file.name] = NoEntry]
              /\ so' = Raised(p, "body")
    /\ UNCHANGED <<dir, umask, sl, others, seen, prior>>

\* a concurrent reader looks at the destination
Read ==
    /\ seen # fs["dst"]
    /\ seen' = fs["dst"]
    /\ UNCHANGED <<dir, fs, umask, so, sl, others, prior>>

NextFile ==
    \/ \E p \in Scopes :
        \/ InitBegin(p)
        \/ InitUmaskRestore(p)
        \/ EnterCheckDir(p)
        \/ EnterMakedirs(p)
        \/ EnterOpen(p)
        \/ BodyWrite(p)
        \/ BodyFlush(p)
        \/ BodyClose(p)
        \/ BodyRaise(p)
        \/ BodyReturn(p)
        \/ ExitClose(p)
        \/ ExitChmod(p)
        \/ ExitRename(p)
        \/ ExitRemove(p)
    \/ Read

----------------------------------------------------------------------------
(* atomic_symlink(src, dst) *)

\* the locals of one call; tmp = "" is None
NewCaller(src, bare) ==
    [pc |-> "start", src |-> src, bare |-> bare, tmp |-> "", n |-> 0,
     err |-> "none"]
IdleCaller == [NewCaller("", FALSE) EXCEPT !.pc = "idle"]

\* continue: the next iteration of the loop, or the raise after it
ContinueUnbounded(c) == [sl EXCEPT ![c].n = @ + 1, ![c].pc = "mktemp"]
Continue(c) ==
    IF sl[c].n + 1 < MaxTries
    THEN [sl EXCEPT ![c].n = @ + 1, ![c].pc = "mktemp"]
    ELSE [sl EXCEPT ![c].n = @ + 1, ![c].pc = "raised", ![c].err = "exhausted"]

\* an exception inside the try block: control goes to the except clause
Except(c, err) == [sl EXCEPT ![c].pc = "except", ![c].err = err]

\* if not os.path.exists(dst_dir): dst_dir is '' for a destination without a
\* directory part, and os.path.exists('') is False
SymCheckDir(c) ==
    /\ sl[c].pc = "start"
    /\ sl' = [sl EXCEPT ![c].pc = IF sl[c].bare \/ ~dir THEN "makedirs"
                                  ELSE "mktemp"]
    /\ UNCHANGED <<dir, fs, umask, so, others, seen, prior>>

\* os.makedirs(dst_dir); os.makedirs('') raises FileNotFoundError
SymMakedirs(c) ==
    /\ sl[c].pc = "makedirs"
    /\ \E fault \in BOOLEAN :
        IF sl[c].bare
        THEN sl' = Except(c, "FileNotFoundError") /\ UNCHANGED dir
        ELSE IF dir
        THEN sl' = Except(c, "FileExistsError") /\ UNCHANGED dir
        ELSE IF fault
        THEN sl' = Except(c, "OSError") /\ UNCHANGED dir
        ELSE dir' = TRUE /\ sl' = [sl EXCEPT ![c].pc = "mktemp"]
    /\ UNCHANGED <<fs, umask, so, others, seen, prior>>

\* tmp = tempfile.mktemp(dir=dst_dir): a name no entry has at this moment;
\* with none left it raises FileExistsError(EEXIST), which the loop's except
\* clause takes for a collision
SymMktemp(c) ==
    /\ sl[c].pc = "mktemp"
    /\ IF \A n \in TempNames : LExists(n)
       THEN sl' = Continue(c)
       ELSE \E n \in TempNames :
               /\ ~LExists(n)
               /\ sl' = [sl EXCEPT ![c].tmp = n, ![c].pc = "symlink"]
    /\ UNCHANGED <<dir, fs, umask, so, others, seen, prior>>

\* the link os.symlink(src, tmp) creates
SymlinkEntry(c) == LinkEntry(sl[c].src, c)

\* os.symlink(src, tmp): EEXIST when the name is taken by now (continue), any
\* other error is raised again
SymSymlinkRetryAny(c) ==
    /\ sl[c].pc = "symlink"
    /\ \E fault \in BOOLEAN :
        IF LExists(sl[c].tmp) \/ fault \/ ~dir
        THEN sl' = Continue(c) /\ UNCHANGED fs
        ELSE /\ fs' = [fs EXCEPT ![sl[c].tmp] = SymlinkEntry(c)]
             /\ sl' = [sl EXCEPT ![c].pc = "rename"]
    /\ UNCHANGED <<dir, umask, so, others, seen, prior>>
SymSymlink(c) ==
    /\ sl[c].pc = "symlink"
    /\ \E fault \in BOOLEAN :
        IF LExists(sl[c].tmp)
        THEN sl' = Continue(c) /\ UNCHANGED fs
        ELSE IF fault \/ ~dir
        THEN sl' = Except(c, "symlink") /\ UNCHANGED fs
        ELSE /\ fs' = [fs EXCEPT ![sl[c].tmp] = SymlinkEntry(c)]
             /\ sl' = [sl EXCEPT ![c].pc = "rename"]
    /\ UNCHANGED <<dir, umask, so, others, seen, prior>>

\* os.rename(tmp, dst): replaces a file or a link at dst, fails on a directory
SymRename(c) ==
    /\ sl[c].pc = "rename"
    /\ \E fault \in BOOLEAN :
        IF fault \/ ~LExists(sl[c].tmp) \/ fs["dst"].kind = "dir"
        THEN sl' = Except(c, "rename") /\ UNCHANGED fs
        ELSE /\ fs' = Replaced(fs, sl[c].tmp, "dst")
             /\ sl' = [sl EXCEPT ![c].pc = "returned"]
    /\ UNCHANGED <<dir, umask, so, others, seen, prior>>

\* the path the except clause tests and removes
CleanupPathDst(c) == "dst"
CleanupPath(c) == sl[c].tmp

\* except: if tmp and os.path.exists(tmp)
SymExceptCheck(c) ==
    /\ sl[c].pc = "except"
    /\ sl' = [sl EXCEPT ![c].pc = IF sl[c].tmp # "" /\ Exists(CleanupPath(c))
                                  THEN "remove" ELSE "raised"]
    /\ UNCHANGED <<dir, fs, umask, so, others, seen, prior>>

\* os.remove(tmp), then raise
SymExceptRemove(c) ==
    /\ sl[c].pc = "remove"
    /\ \E fault \in BOOLEAN :
        IF fault \/ ~LExists(CleanupPath(c))
        THEN sl' = [sl EXCEPT ![c].pc = "raised", ![c].err = "remove"]
             /\ UNCHANGED fs
        ELSE /\ fs' = [fs EXCEPT ![CleanupPath(c)] = NoEntry]
             /\ sl' = [sl EXCEPT ![c].pc = "raised"]
    /\ UNCHANGED <<dir, umask, so, others, seen, prior>>

\* another process creates a file in the directory under a temporary name
OtherCreate ==
    /\ others < MaxOther
    /\ dir
    /\ \E n \in TempNames :
        /\ ~LExists(n)
        /\ fs' = [fs EXCEPT ![n] = FileEntry(<<>>, RW \ umask, "other")]
    /\ others' = others + 1
    /\ UNCHANGED <<dir, umask, so, sl, seen, prior>>

NextCallers ==
    \/ \E c \in Callers :
        \/ SymCheckDir(c)
        \/ SymMakedirs(c)
        \/ SymMktemp(c)
        \/ SymSymlink(c)
        \/ SymRename(c)
        \/ SymExceptCheck(c)
        \/ SymExceptRemove(c)
    \/ Read

NextLink == NextCallers \/ OtherCreate

----------------------------------------------------------------------------
(* Initial states and specifications *)

\* the directory before any call: missing, or holding at most the destination
InitFs(entry) ==
    /\ dir \in BOOLEAN
    /\ dir \/ entry = NoEntry
    /\ fs = [n \in Names |-> IF n = "dst" THEN entry ELSE NoEntry]
    /\ umask \in Umasks
    /\ others = 0
    /\ seen = entry
    /\ prior = [dir |-> dir, dst |-> entry, umask |-> umask]

ScopeArgs(modes, use_temps) ==
    {NewScope(mode, use_temp, chmod, delete_temp_on_error, bare) :
        mode \in modes, use_temp \in use_temps, chmod \in ChmodArgs,
        delete_temp_on_error \in BOOLEAN, bare \in BOOLEAN}

\* one smart_open scope, with any arguments
InitScope ==
    /\ \E entry \in {NoEntry, PriorFile} : InitFs(entry)
    /\ \E s \in ScopeArgs(Modes, UseTempArgs) :
        /\ s.bare => dir
        /\ so = [p \in Scopes |-> IF p = "s1" THEN s ELSE IdleScope]
    /\ sl = [c \in Callers |-> IdleCaller]

SpecScope == InitScope /\ [][NextFile]_vars

\* concurrent scopes that stage their writes, and a reader
InitStaged ==
    /\ \E entry \in {NoEntry, PriorFile} : InitFs(entry)
    /\ umask = {"gw", "ow"}
    /\ so \in [Scopes -> {s \in ScopeArgs(StagedModes, {"None", "True"}) :
                            /\ ~s.bare
                            /\ s.mode = {"w"}
                            /\ ~s.chmod_arg.given}]
    /\ so["s1"].use_temp_arg = "None"
    /\ so["s2"].use_temp_arg = "True"
    /\ sl = [c \in Callers |-> IdleCaller]

SpecStaged == InitStaged /\ [][NextFile]_vars

\* concurrent atomic_symlink calls on one destination
InitLink ==
    /\ \E entry \in {NoEntry, PriorFile, LinkEntry("/old", "init"), DirEntry} :
        InitFs(entry)
    /\ umask = {"gw", "ow"}
    /\ so = [p \in Scopes |-> IdleScope]
    /\ sl \in [Callers -> {NewCaller(src, bare) : src \in Srcs, bare \in BOOLEAN}]
    /\ \A c \in Callers : sl[c].bare => dir

SpecLink == InitLink /\ [][NextLink]_vars

\* the calls and the reader alone: no other process writes to the directory
SpecCallers == InitLink /\ [][NextCallers]_vars

\* the steps of one call
Call(c) ==
    \/ SymCheckDir(c)
    \/ SymMakedirs(c)
    \/ SymMktemp(c)
    \/ SymSymlink(c)
    \/ SymRename(c)
    \/ SymExceptCheck(c)
    \/ SymExceptRemove(c)

\* two calls with a directory part in their destination, beside another
\* process
InitLoop ==
    /\ \E entry \in {NoEntry, LinkEntry("/old", "init")} : InitFs(entry)
    /\ umask = {"gw", "ow"}
    /\ so = [p \in Scopes |-> IdleScope]
    /\ sl \in [Callers -> {NewCaller(src, FALSE) : src \in {"/a/b", "/gone"}}]

\* every call that can take a step takes one in the end: a call is a thread
\* of straight-line code that waits for nothing
SpecLoop == InitLoop /\ [][NextLink]_vars /\ \A c \in Callers : WF_vars(Call(c))

\* one scope and one call at work in the same directory
Init ==
    /\ \E entry \in {NoEntry, PriorFile} : InitFs(entry)
    /\ \E s \in ScopeArgs({{"w"}, {"a"}}, {"None"}) :
        /\ ~s.bare
        /\ ~s.chmod_arg.given
        /\ so = [p \in Scopes |-> IF p = "s1" THEN s ELSE IdleScope]
    /\ umask = {"gw", "ow"}
    /\ sl = [c \in Callers |-> IF c = "c1" THEN NewCaller("/a/b", FALSE)
                               ELSE IdleCaller]

Next == NextFile \/ NextLink

Spec == Init /\ [][Next]_vars

----------------------------------------------------------------------------
(* Properties of smart_open *)

\* an entry a reader may find at the destination: what was there before, or
\* the whole content one scope wrote
CompleteEntry(e) ==
    \/ e = prior.dst
    \/ /\ e.kind = "file"
       /\ \E p \in Scopes : e.by = p /\ e.data = Payload(p)

\* C1: with scopes that stage their writes, the destination holds at every
\* moment, and the reader finds at every read, either what was there before
\* (or nothing, when nothing was there) or all of what one scope wrote,
\* never a part of it.
C1_StagedAtomicity == CompleteEntry(fs["dst"]) /\ CompleteEntry(seen)

\* the reader has read the content of s1 while s2's temporary file holds
\* the first chunk only
C1_Witness ==
    /\ seen.kind = "file"
    /\ seen.by = "s1"
    /\ so["s2"].pc = "body"
    /\ so["s2"].file.name \in TempNames
    /\ fs[so["s2"].file.name].data = <<Payload("s2")[1]>>

\* C2: when a scope that uses a temporary file has exited without error, the
\* destination is a file holding exactly what the body wrote, and no
\* temporary file of the scope is left.
C2_StagedSuccess ==
    \A p \in Scopes :
        so[p].pc = "done" /\ so[p].use_temp =>
            /\ fs["dst"].kind = "file"
            /\ fs["dst"].by = p
            /\ fs["dst"].data = Payload(p)
            /\ \A n \in TempNames : fs[n].by # p

\* a staged scope has replaced the file that was there before
C2_Witness ==
    /\ so["s1"].pc = "done"
    /\ so["s1"].use_temp
    /\ prior.dst = PriorFile
    /\ fs["dst"].data = Payload("s1")

\* C3: when the body of a scope raised and delete_temp_on_error is true,
\* whatever the mode and whether or not a temporary file is used, after the
\* exit the destination is what it was before and no temporary file is left.
C3_FailedScopeKeepsDestination ==
    \A p \in Scopes :
        so[p].pc = "raised" /\ so[p].err = "body"
                            /\ so[p].delete_temp_on_error =>
            /\ fs["dst"] = prior.dst
            /\ \A n \in TempNames : ~LExists(n)

\* C4: when the body of a scope that uses a temporary file raised and
\* delete_temp_on_error is false, after the exit exactly one temporary file
\* of the scope is left, it holds what the body wrote before it raised, and
\* the destination is what it was before.
C4_FailedScopeKeepsTemp ==
    \A p \in Scopes :
        so[p].pc = "raised" /\ so[p].exc /\ so[p].use_temp
                            /\ ~so[p].delete_temp_on_error =>
            /\ Cardinality({n \in TempNames : fs[n].by = p}) = 1
            /\ \A n \in TempNames :
                 fs[n].by = p =>
                    /\ fs[n].kind = "file"
                    /\ Len(fs[n].data) = so[p].written
                    /\ \A i \in 1..so[p].written : fs[n].data[i] = <<p, i>>
            /\ fs["dst"] = prior.dst

\* the body raised after its first chunk, beside a file that was there
C4_Witness ==
    /\ so["s1"].pc = "raised"
    /\ so["s1"].exc
    /\ so["s1"].use_temp
    /\ ~so["s1"].delete_temp_on_error
    /\ so["s1"].written = 1
    /\ prior.dst = PriorFile

\* the mode check of the constructor, read off the mode's characters
ModeForbidsTemp(mode) == mode \cap {"r", "x", "a", "+"} # {}
Constructed(s) == s.pc \notin {"idle", "new", "init_umask"}
Untouched ==
    /\ dir = prior.dir
    /\ fs = [n \in Names |-> IF n = "dst" THEN prior.dst ELSE NoEntry]

\* C9: the constructor raises ValueError exactly when use_temp is given as
\* true and the mode has one of r, x, a, +; it raises before anything in the
\* file system is created, opened or changed; otherwise use_temp is the
\* value given or, when none is given, the negation of the mode check.
C9_Constructor ==
    \A p \in Scopes :
        Constructed(so[p]) =>
            /\ so[p].err = "ValueError" <=>
                 (so[p].use_temp_arg = "True" /\ ModeForbidsTemp(so[p].mode))
            /\ so[p].err = "ValueError" =>
                 so[p].pc = "raised" /\ Untouched /\ so[p].file = NoHandle
            /\ so[p].err # "ValueError" =>
                 so[p].use_temp = IF so[p].use_temp_arg = "None"
                                  THEN ~ModeForbidsTemp(so[p].mode)
                                  ELSE so[p].use_temp_arg = "True"

\* the constructor refused use_temp=True with a mode that has a +
C9_Witness ==
    /\ so["s1"].pc = "raised"
    /\ so["s1"].err = "ValueError"
    /\ "+" \in so["s1"].mode

\* C10: after an exit without error the permission of the file is the
\* caller's value when a value other than zero was given, the default
\* 0o666 & ~umask when none was given, whatever the umask; and os.chmod is
\* left out only when the caller gave zero.
C10_Permissions ==
    \A p \in Scopes :
        so[p].pc = "done" /\ Writable(so[p].mode) =>
            /\ so[p].chmod_arg.given /\ so[p].chmod_arg.bits # {} =>
                 fs["dst"].perm = so[p].chmod_arg.bits
            /\ ~so[p].chmod_arg.given => fs["dst"].perm = RW \ umask
            /\ ~so[p].chmod_called =>
                 so[p].chmod_arg.given /\ so[p].chmod_arg.bits = {}

----------------------------------------------------------------------------
(* Properties of atomic_symlink *)

\* C5: in the step in which a call returns, the destination becomes a
\* symbolic link to the call's src and no temporary link of the call is
\* left, whether the destination was missing, a file or another link.
C5_LinkOnReturn ==
    [][\A c \in Callers :
          sl[c].pc # "returned" /\ sl'[c].pc = "returned" =>
              /\ fs'["dst"].kind = "link"
              /\ fs'["dst"].to = sl[c].src
              /\ \A n \in TempNames : fs'[n].by # c]_vars

\* the targets the concurrent calls are installing
NewTargets == {sl[c].src : c \in Callers}
OldOrNew(e) == e.kind = "link" /\ e.to \in {prior.dst.to} \cup NewTargets

\* C6: when the destination was a symbolic link before the calls, then at
\* every moment of the calls, however they and the reader interleave, it is
\* a symbolic link to the old target or to the target of one of the calls;
\* the reader never finds it missing.
C6_LinkNeverMissing ==
    prior.dst.kind = "link" => OldOrNew(fs["dst"]) /\ OldOrNew(seen)

\* the old link is still in place while one call has its temporary link
\* created and the other has failed and is in its except clause
C6_Witness ==
    /\ prior.dst.kind = "link"
    /\ fs["dst"] = prior.dst
    /\ sl["c1"].pc = "rename"
    /\ sl["c2"].pc = "remove"

\* C7: when a call raises after it created its temporary link, the link has
\* been removed, also when it points to nothing (the case in which
\* os.remove itself failed is left out).
C7_TempRemovedOnError ==
    \A c \in Callers :
        sl[c].pc = "raised" /\ sl[c].err # "remove" =>
            \A n \in TempNames : fs[n].by # c

\* C8: the destination changes in no step but the one in which a call's
\* rename succeeds, so a call that fails leaves it as it was.
C8_DestinationFrame ==
    [][fs'["dst"] # fs["dst"] =>
          \E c \in Callers : sl[c].pc = "rename" /\ sl'[c].pc = "returned"]_vars

\* a call has raised after its rename failed on a destination that is a
\* file, and the file is still there
C8_Witness ==
    /\ prior.dst = PriorFile
    /\ sl["c1"].pc = "raised"
    /\ sl["c1"].err = "rename"
    /\ fs["dst"] = PriorFile

----------------------------------------------------------------------------
(* Properties of smart_open: finalization and directory creation *)

\* C11: when os.chmod fails in the exit of a staged scope whose body wrote
\* without error, and delete_temp_on_error is true, the error reaches the
\* caller, the destination is what it was before and the temporary file has
\* been removed.
C11_ChmodFailureCleansUp ==
    \A p \in Scopes :
        so[p].pc = "raised" /\ so[p].err = "chmod" /\ so[p].use_temp
                            /\ so[p].delete_temp_on_error =>
            /\ ~so[p].exc
            /\ fs["dst"] = prior.dst
            /\ \A n \in TempNames : ~LExists(n)

\* C14: when the body of a staged scope ended without error and os.chmod or
\* the rename raised, the error reaches the caller, the one temporary file
\* of the scope is left with all the body wrote, whatever
\* delete_temp_on_error is, and after a failed rename the destination is
\* what it was before.
C14_FinalizationFailure ==
    \A p \in Scopes :
        so[p].pc = "raised" /\ so[p].err \in {"chmod", "rename"}
                            /\ so[p].use_temp =>
            /\ ~so[p].exc
            /\ Cardinality({n \in TempNames : fs[n].by = p}) = 1
            /\ \A n \in TempNames :
                 fs[n].by = p => fs[n].kind = "file" /\ fs[n].data = Payload(p)
            /\ so[p].err = "rename" => fs["dst"] = prior.dst

\* the rename onto a file that was there failed, with delete_temp_on_error
\* true
C14_Witness ==
    /\ so["s1"].pc = "raised"
    /\ so["s1"].err = "rename"
    /\ so["s1"].use_temp
    /\ so["s1"].delete_temp_on_error
    /\ prior.dst = PriorFile

\* the mode implies writing
ImpliesWriting(mode) == mode \cap {"w", "x", "a", "+"} # {}

\* C12: the directory comes into existence only in the os.makedirs of a
\* scope whose mode implies writing and only when it is missing; such a
\* scope finds the directory in place when it goes on to open its file; a
\* scope in a read-only mode never creates it; and when os.makedirs fails
\* the scope raises with no file created or opened.
C12_DirectoryCreation ==
    [][\A p \in Scopes :
          /\ dir' # dir =>
               \E q \in Scopes : /\ so[q].pc = "makedirs"
                                 /\ ImpliesWriting(so[q].mode)
                                 /\ ~dir /\ dir'
          /\ so[p].pc # "open" /\ so'[p].pc = "open"
                               /\ ImpliesWriting(so[p].mode) => dir'
          /\ ~ImpliesWriting(so[p].mode) /\ so[p].pc # "idle" => dir' = prior.dir
          /\ so[p].pc = "makedirs" /\ so'[p].pc = "raised" =>
               /\ so'[p].file = NoHandle
               /\ fs' = [n \in Names |-> IF n = "dst" THEN prior.dst ELSE NoEntry]
               /\ ~dir']_vars

\* a scope in append mode is in its body in a directory that was missing
C12_Witness ==
    /\ so["s1"].pc = "body"
    /\ so["s1"].mode = {"a"}
    /\ ~prior.dir
    /\ dir

----------------------------------------------------------------------------
(* Properties of concurrent use and of failure handling *)

\* C13: a call whose destination has no directory part passes the
\* directory-ensuring step without calling os.makedirs and without an error,
\* as a call does whose destination names an existing directory.
C13_BareDestination ==
    \A c \in Callers :
        sl[c].bare => sl[c].pc # "makedirs" /\ sl[c].err # "FileNotFoundError"

\* C15: a scope or a call that comes to os.makedirs when the directory has
\* been created by another caller since its own existence check does not
\* fail: it goes on as if it had created the directory.
C15_DirectoryRaceTolerated ==
    [][/\ \A p \in Scopes :
            so[p].pc = "makedirs" /\ dir => so'[p].pc \in {"makedirs", "open"}
       /\ \A c \in Callers :
            sl[c].pc = "makedirs" /\ dir => sl'[c].pc \in {"makedirs", "mktemp"}]_vars

\* C18: the error a caller receives is the original one, also when the
\* delete of the temporary entry failed: a scope whose body raised ends with
\* the body's error, and no call ends with the error of os.remove.
C18_CleanupKeepsOriginalError ==
    /\ \A p \in Scopes : so[p].pc = "raised" /\ so[p].exc => so[p].err = "body"
    /\ \A c \in Callers : sl[c].pc = "raised" => sl[c].err # "remove"

\* C19: once every construction has ended, the process umask is what it was
\* before them and every object's default permission is derived from that
\* umask.
C19_UmaskRestored ==
    (\A p \in Scopes : so[p].pc \notin {"new", "init_umask"}) =>
        /\ umask = prior.umask
        /\ \A p \in Scopes :
             ~so[p].chmod_arg.given => so[p].chmod = UmaskDefault(prior.umask)

\* C20: an entry that the os.remove of a call's except clause removes was
\* created by that call.
C20_RemovesOwnEntryOnly ==
    [][\A c \in Callers :
          sl[c].pc = "remove" /\ sl'[c].pc = "raised" =>
              \A n \in Names :
                  LExists(n) /\ fs'[n] = NoEntry => fs[n].by = c]_vars

----------------------------------------------------------------------------
(* Properties of atomic_symlink's loop *)

\* C16: after an attempt to create the link the call goes on to another
\* attempt only when the name existed at that moment; when the creation
\* fails for any other reason the call goes to its except clause in that
\* very step, with no attempt counted, and from there it only cleans up and
\* raises: it draws no further name, creates no link and renames nothing.
C16_RetryOnlyOnCollision ==
    [][\A c \in Callers :
          /\ sl[c].pc = "symlink" /\ sl'[c].n # sl[c].n => LExists(sl[c].tmp)
          /\ sl[c].pc = "symlink" /\ sl'[c] # sl[c] /\ ~LExists(sl[c].tmp)
                                  /\ fs'[sl[c].tmp] = fs[sl[c].tmp] =>
                sl'[c].pc = "except" /\ sl'[c].n = sl[c].n
          /\ sl[c].pc \in {"except", "remove"} =>
                /\ sl'[c].pc \in {"except", "remove", "raised"}
                /\ sl'[c].n = sl[c].n
                /\ sl'[c].tmp = sl[c].tmp
                /\ sl'[c] # sl[c] => fs'["dst"] = fs["dst"]]_vars

\* a call has raised the error of os.symlink at its second attempt, the
\* first having met a name that was taken
C16_Witness ==
    /\ sl["c1"].pc = "raised"
    /\ sl["c1"].err = "symlink"
    /\ sl["c1"].n = 1

\* a call has ended
Ended(c) == sl[c].pc \in {"returned", "raised"}

\* C17: every call ends; it never counts more than MaxTries collisions; it
\* raises the exhaustion error exactly when it has counted MaxTries of them,
\* and then it has put no entry into the directory (so it has renamed
\* nothing), and the step in which it gives up changes no entry.
C17_Termination ==
    /\ [](\A c \in Callers :
            /\ sl[c].n <= MaxTries
            /\ sl[c].err = "exhausted" <=> sl[c].n = MaxTries
            /\ sl[c].err = "exhausted" =>
                 /\ sl[c].pc = "raised"
                 /\ \A n \in Names : fs[n].by # c)
    /\ [][\A c \in Callers :
            sl[c].err # "exhausted" /\ sl'[c].err = "exhausted" => fs' = fs]_vars
    /\ \A c \in Callers : <>Ended(c)

\* a call has given up after MaxTries collisions while the entries of the
\* other process and of the other call are in place
C17_Witness ==
    /\ sl["c1"].err = "exhausted"
    /\ sl["c1"].n = MaxTries
    /\ \E n \in TempNames : fs[n].by = "other"

====
